---- MODULE Spec2Model ----
(***************************************************************************)
(* Teleoperation command pipeline of the WebUI: the touch joystick         *)
(* (src/src/JoystickClean.tsx), the gamepad polling loop, the cmd_vel      *)
(* publisher and the two status indicators (src/src/App.tsx).              *)
(*                                                                         *)
(* Numbers.  The program computes with IEEE doubles; the model computes    *)
(* with exact integers in fixed units:                                     *)
(*   touch axis            integer in [-100, 100]       (as delivered)     *)
(*   gamepad axis          hundredths     (100  = 1.0)                     *)
(*   multipliers           tenths         (5    = 0.5, the slider step)    *)
(*   eased touch axis      1/10000        (2500 = 0.25)                    *)
(*   published lin / ang   1/100000       (25000 = 0.25)                   *)
(*   time                  milliseconds                                    *)
(* A nullable value is a sequence: <<>> is null, <<v>> is the value v.     *)
(*                                                                         *)
(* Scheduling.  Handlers run to completion, one at a time.  The host runs   *)
(* the callbacks of one animation frame back to back, in the order they    *)
(* were requested, and a callback requested during a frame runs in the     *)
(* next one: raf is that queue, and while frameLeft > 0 a frame is in      *)
(* progress and no other handler runs.  A multiplier write, the render it  *)
(* causes and the effect cleanup and re-run are one step.                  *)
(*                                                                         *)
(* The diagnostic log (logDebug, joystickLogRef, terminalOutput), the      *)
(* sensor subscriptions and the status colours are display state that no   *)
(* handler of the pipeline reads back; they are not part of the model.     *)
(***************************************************************************)
EXTENDS Integers, Sequences, FiniteSets

VARIABLES
    now,            \* Date.now(), ms
    lastMoveTime,   \* Joystick: lastMoveTime.current
    linearMul,      \* App state linearMul of the latest render
    angularMul,     \* App state angularMul of the latest render
    webStatus,      \* App state webStatus (link status)
    twistStatus,    \* App state twistStatus (command-activity status)
    conn,           \* every ROSLIB.Ros created so far, by creation order: its socket state
    cmdVelRef,      \* cmdVelRef.current: <<>> or <<i>>, the topic bound to conn[i]
    gamepadIdxRef,  \* gamepadIdxRef.current: <<>> or <<index>>
    pads,           \* host gamepad state: index -> "absent" | "present" | "unplugged"
    raf,            \* callbacks handed to requestAnimationFrame, in call order
    frameLeft,      \* callbacks of the animation frame in progress still to run
    ev,             \* the step taken last, with the inputs it received
    out,            \* the messages that handler passed to cmdVel.publish
    sig,            \* the text that handler passed to setTwistStatus, <<>> if none
    lastStamp       \* header.stamp of the message published last, <<>> before the first

vars == <<now, lastMoveTime, linearMul, angularMul, webStatus, twistStatus, conn,
          cmdVelRef, gamepadIdxRef, pads, raf, frameLeft, ev, out, sig, lastStamp>>

-----------------------------------------------------------------------------
(* Bounds of the exploration *)

StartTime == 990
Horizon == 40
MaxConn == 2
MaxRaf == 2

(* Program constants, in the units above *)

THROTTLE_MS == 30
deadzone == 10
MAGNITUDE_GATE == 1000
InitLinearMul == 5
InitAngularMul == 10
AXIS_FULL == 100

(* Inputs *)

ClockSteps == {10, 30}
TouchAxes == {-100, 5, 50}
TouchSamples == {<<>>} \cup {<<v>> : v \in TouchAxes}
GpAxes == {-50, 10}
LinearMuls == {0, 5}
AngularMuls == {0, 10}
PadIndices == {0, 1}

None == <<>>
Some(v) == <<v>>

Abs(n) == IF n < 0 THEN -n ELSE n
Sign(n) == IF n > 0 THEN 1 ELSE IF n < 0 THEN -1 ELSE 0

-----------------------------------------------------------------------------
(* Publisher: App.tsx 77-102 *)

\* Mutant: seconds rounded to the nearest instead of down
getROSTimestampRounded(t) ==
    [sec |-> (t + 500) \div 1000, nanosec |-> (t % 1000) * 1000000]

getROSTimestamp(t) ==
    [sec |-> t \div 1000, nanosec |-> (t % 1000) * 1000000]

buildTwistStamped(linX, angZ, t) ==
    [header |-> [frame_id |-> "base_link", stamp |-> getROSTimestamp(t)],
     twist  |-> [linear  |-> [x |-> linX, y |-> 0, z |-> 0],
                 angular |-> [x |-> 0, y |-> 0, z |-> angZ]]]

\* Mutant: a publisher that forwards only non-zero commands
publishTwistNonZero(lx, az, ref, t) ==
    IF ref # None /\ (lx # 0 \/ az # 0) THEN <<buildTwistStamped(lx, az, t)>> ELSE <<>>

\* The messages one publishTwist(lx, az) call hands to cmdVelRef.current.publish.
publishTwist(lx, az, ref, t) ==
    IF ref # None THEN <<buildTwistStamped(lx, az, t)>> ELSE <<>>

\* Bookkeeping of every step: the stamp of the message a step published last
Track ==
    lastStamp' = IF out' = <<>> THEN lastStamp ELSE Some(out'[Len(out')].header.stamp)

-----------------------------------------------------------------------------
(* Touch joystick: JoystickClean.tsx 20-53 *)

\* Mutant: the curve without the sign
applyEasingUnsigned(value) == Abs(value) * Abs(value)

\* value / 100, sign * abs * abs; result in 1/10000
applyEasing(value) == Sign(value) * Abs(value) * Abs(value)

\* Mutant: the gate also rejects an event exactly THROTTLE_MS after the last one
ThrottledInclusive(t, last) == t - last <= THROTTLE_MS

Throttled(t, last) == t - last < THROTTLE_MS

\* Mutant: a gate that wants both components above the threshold
PassesGateBoth(lin, ang) == Abs(lin) > MAGNITUDE_GATE /\ Abs(ang) > MAGNITUDE_GATE

PassesGate(lin, ang) == Abs(lin) > MAGNITUDE_GATE \/ Abs(ang) > MAGNITUDE_GATE

TouchLin(y, lm) == applyEasing(y) * lm
TouchAng(x, am) == -applyEasing(x) * am

\* Mutant: the throttle timer restarts only when the move is published
HandleMoveEmitTimer(x, y) ==
    /\ frameLeft = 0
    /\ ev' = [kind |-> "move", x |-> x, y |-> y, last |-> lastMoveTime]
    /\ IF x = None \/ y = None \/ Throttled(now, lastMoveTime)
         THEN /\ out' = <<>>
              /\ sig' = None
              /\ UNCHANGED <<lastMoveTime, twistStatus>>
         ELSE LET lin == TouchLin(y[1], linearMul)
                  ang == TouchAng(x[1], angularMul)
              IN  IF PassesGate(lin, ang)
                    THEN /\ lastMoveTime' = now
                         /\ out' = publishTwist(lin, ang, cmdVelRef, now)
                         /\ sig' = Some("Active")
                         /\ twistStatus' = "Active"
                    ELSE /\ out' = <<>>
                         /\ sig' = None
                         /\ UNCHANGED <<lastMoveTime, twistStatus>>
    /\ UNCHANGED <<now, linearMul, angularMul, webStatus, conn, cmdVelRef,
                   gamepadIdxRef, pads, raf, frameLeft>>
    /\ Track

HandleMove(x, y) ==
    /\ frameLeft = 0
    /\ ev' = [kind |-> "move", x |-> x, y |-> y, last |-> lastMoveTime]
    /\ IF x = None \/ y = None
         THEN /\ out' = <<>>
              /\ sig' = None
              /\ UNCHANGED <<lastMoveTime, twistStatus>>
         ELSE IF Throttled(now, lastMoveTime)
         THEN /\ out' = <<>>
              /\ sig' = None
              /\ UNCHANGED <<lastMoveTime, twistStatus>>
         ELSE LET lin == TouchLin(y[1], linearMul)
                  ang == TouchAng(x[1], angularMul)
              IN  /\ lastMoveTime' = now
                  /\ IF PassesGate(lin, ang)
                       THEN /\ out' = publishTwist(lin, ang, cmdVelRef, now)
                            /\ sig' = Some("Active")
                            /\ twistStatus' = "Active"
                       ELSE /\ out' = <<>>
                            /\ sig' = None
                            /\ UNCHANGED twistStatus
    /\ UNCHANGED <<now, linearMul, angularMul, webStatus, conn, cmdVelRef,
                   gamepadIdxRef, pads, raf, frameLeft>>
    /\ Track

\* Mutant: a release that honours the move throttle
HandleStopThrottled ==
    /\ frameLeft = 0
    /\ ev' = [kind |-> "stop"]
    /\ out' = IF Throttled(now, lastMoveTime) THEN <<>>
              ELSE publishTwist(0, 0, cmdVelRef, now)
    /\ sig' = Some("Idle")
    /\ twistStatus' = "Idle"
    /\ UNCHANGED <<now, lastMoveTime, linearMul, angularMul, webStatus, conn,
                   cmdVelRef, gamepadIdxRef, pads, raf, frameLeft>>
    /\ Track

\* Mutant: a release whose Idle signal goes to the link status
HandleStopLinkStatus ==
    /\ frameLeft = 0
    /\ ev' = [kind |-> "stop"]
    /\ out' = publishTwist(0, 0, cmdVelRef, now)
    /\ sig' = Some("Idle")
    /\ twistStatus' = "Idle"
    /\ webStatus' = "Idle"
    /\ UNCHANGED <<now, lastMoveTime, linearMul, angularMul, conn,
                   cmdVelRef, gamepadIdxRef, pads, raf, frameLeft>>
    /\ Track

\* Mutant: a release that leaves an Error or Disconnected status standing
HandleStopSticky ==
    /\ frameLeft = 0
    /\ ev' = [kind |-> "stop"]
    /\ out' = publishTwist(0, 0, cmdVelRef, now)
    /\ IF twistStatus \in {"Error", "Disconnected"}
         THEN sig' = None /\ UNCHANGED twistStatus
         ELSE sig' = Some("Idle") /\ twistStatus' = "Idle"
    /\ UNCHANGED <<now, lastMoveTime, linearMul, angularMul, webStatus, conn,
                   cmdVelRef, gamepadIdxRef, pads, raf, frameLeft>>
    /\ Track

HandleStop ==
    /\ frameLeft = 0
    /\ ev' = [kind |-> "stop"]
    /\ out' = publishTwist(0, 0, cmdVelRef, now)
    /\ sig' = Some("Idle")
    /\ twistStatus' = "Idle"
    /\ UNCHANGED <<now, lastMoveTime, linearMul, angularMul, webStatus, conn,
                   cmdVelRef, gamepadIdxRef, pads, raf, frameLeft>>
    /\ Track

-----------------------------------------------------------------------------
(* Transport lifecycle: App.tsx 126-161, 253-258 *)

\* The connection the current command topic publishes on has had its connect event
\* and neither an error nor a close event since
TransportConnected == cmdVelRef # None /\ conn[cmdVelRef[1]] = "open"

RosConnection(i) ==
    /\ frameLeft = 0
    /\ conn[i] = "connecting"
    /\ conn' = [conn EXCEPT ![i] = "open"]
    /\ webStatus' = "Connected"
    /\ twistStatus' = "Idle"
    /\ ev' = [kind |-> "connection", i |-> i]
    /\ out' = <<>>
    /\ sig' = Some("Idle")
    /\ UNCHANGED <<now, lastMoveTime, linearMul, angularMul, cmdVelRef,
                   gamepadIdxRef, pads, raf, frameLeft>>
    /\ Track

\* Mutant: the error handler updates the link status only
RosErrorLinkOnly(i) ==
    /\ frameLeft = 0
    /\ conn[i] \in {"connecting", "open", "closing"}
    /\ conn' = [conn EXCEPT ![i] = "failed"]
    /\ webStatus' = "Error"
    /\ ev' = [kind |-> "error", i |-> i]
    /\ out' = <<>>
    /\ sig' = None
    /\ UNCHANGED <<now, lastMoveTime, linearMul, angularMul, twistStatus, cmdVelRef,
                   gamepadIdxRef, pads, raf, frameLeft>>
    /\ Track

RosError(i) ==
    /\ frameLeft = 0
    /\ conn[i] \in {"connecting", "open", "closing"}
    /\ conn' = [conn EXCEPT ![i] = "failed"]
    /\ webStatus' = "Error"
    /\ twistStatus' = "Error"
    /\ ev' = [kind |-> "error", i |-> i]
    /\ out' = <<>>
    /\ sig' = Some("Error")
    /\ UNCHANGED <<now, lastMoveTime, linearMul, angularMul, cmdVelRef,
                   gamepadIdxRef, pads, raf, frameLeft>>
    /\ Track

RosClose(i) ==
    /\ frameLeft = 0
    /\ conn[i] \in {"connecting", "open", "closing", "failed"}
    /\ conn' = [conn EXCEPT ![i] = "closed"]
    /\ webStatus' = "Disconnected"
    /\ twistStatus' = "Disconnected"
    /\ ev' = [kind |-> "close", i |-> i]
    /\ out' = <<>>
    /\ sig' = Some("Disconnected")
    /\ UNCHANGED <<now, lastMoveTime, linearMul, angularMul, cmdVelRef,
                   gamepadIdxRef, pads, raf, frameLeft>>
    /\ Track

\* ros.close() of the effect cleanup: the socket starts closing, its close event follows
CloseRequested(s) == IF s \in {"connecting", "open"} THEN "closing" ELSE s

\* Mutant: an effect without the ros.close() of its cleanup
RerunEffectNoClose ==
    /\ conn' = Append(conn, "connecting")
    /\ cmdVelRef' = Some(Len(conn) + 1)

\* Cleanup of the previous effect, then the effect body again with the new render.
RerunEffect ==
    /\ conn' = Append([conn EXCEPT ![Len(conn)] = CloseRequested(@)], "connecting")
    /\ cmdVelRef' = Some(Len(conn) + 1)

SetLinearMul(v) ==
    /\ frameLeft = 0
    /\ v # linearMul
    /\ Len(conn) < MaxConn
    /\ linearMul' = v
    /\ RerunEffect
    /\ ev' = [kind |-> "setLinearMul", v |-> v]
    /\ out' = <<>>
    /\ sig' = None
    /\ UNCHANGED <<now, lastMoveTime, angularMul, webStatus, twistStatus,
                   gamepadIdxRef, pads, raf, frameLeft>>
    /\ Track

SetAngularMul(v) ==
    /\ frameLeft = 0
    /\ v # angularMul
    /\ Len(conn) < MaxConn
    /\ angularMul' = v
    /\ RerunEffect
    /\ ev' = [kind |-> "setAngularMul", v |-> v]
    /\ out' = <<>>
    /\ sig' = None
    /\ UNCHANGED <<now, lastMoveTime, linearMul, webStatus, twistStatus,
                   gamepadIdxRef, pads, raf, frameLeft>>
    /\ Track

-----------------------------------------------------------------------------
(* Gamepad: App.tsx 219-251 *)

\* The pollGamepad closure created by the effect of the latest render
CurrentPoll == [linearMul |-> linearMul, angularMul |-> angularMul]

HandleGamepadConnected(i) ==
    /\ frameLeft = 0
    /\ pads[i] = "absent"
    /\ Len(raf) < MaxRaf
    /\ pads' = [pads EXCEPT ![i] = "present"]
    /\ gamepadIdxRef' = Some(i)
    /\ raf' = Append(raf, CurrentPoll)
    /\ ev' = [kind |-> "gamepadconnected", i |-> i]
    /\ out' = <<>>
    /\ sig' = None
    /\ UNCHANGED <<now, lastMoveTime, linearMul, angularMul, webStatus, twistStatus,
                   conn, cmdVelRef, frameLeft>>
    /\ Track

\* The host drops the device from navigator.getGamepads(); its event is still to come
PadUnplug(i) ==
    /\ frameLeft = 0
    /\ pads[i] = "present"
    /\ pads' = [pads EXCEPT ![i] = "unplugged"]
    /\ ev' = [kind |-> "unplug", i |-> i]
    /\ out' = <<>>
    /\ sig' = None
    /\ UNCHANGED <<now, lastMoveTime, linearMul, angularMul, webStatus, twistStatus,
                   conn, cmdVelRef, gamepadIdxRef, raf, frameLeft>>
    /\ Track

\* Mutant: a handler that clears the index only for the tracked device
HandleGamepadDisconnectedTrackedOnly(i) ==
    /\ frameLeft = 0
    /\ pads[i] = "unplugged"
    /\ pads' = [pads EXCEPT ![i] = "absent"]
    /\ gamepadIdxRef' = IF gamepadIdxRef = Some(i) THEN None ELSE gamepadIdxRef
    /\ ev' = [kind |-> "gamepaddisconnected", i |-> i, tracked |-> gamepadIdxRef]
    /\ out' = <<>>
    /\ sig' = None
    /\ UNCHANGED <<now, lastMoveTime, linearMul, angularMul, webStatus, twistStatus,
                   conn, cmdVelRef, raf, frameLeft>>
    /\ Track

HandleGamepadDisconnected(i) ==
    /\ frameLeft = 0
    /\ pads[i] = "unplugged"
    /\ pads' = [pads EXCEPT ![i] = "absent"]
    /\ gamepadIdxRef' = None
    /\ ev' = [kind |-> "gamepaddisconnected", i |-> i, tracked |-> gamepadIdxRef]
    /\ out' = <<>>
    /\ sig' = None
    /\ UNCHANGED <<now, lastMoveTime, linearMul, angularMul, webStatus, twistStatus,
                   conn, cmdVelRef, raf, frameLeft>>
    /\ Track

\* navigator.getGamepads()[gamepadIdxRef.current] is a device
GamepadPresent == gamepadIdxRef # None /\ pads[gamepadIdxRef[1]] = "present"

\* Mutant: the linear axis without its deadzone
GamepadLinNoDeadzone(y, lm) == -y * lm * 100

GamepadLin(y, lm) == IF Abs(y) > deadzone THEN -y * lm * 100 ELSE 0
GamepadAng(x, am) == IF Abs(x) > deadzone THEN -x * am * 100 ELSE 0

\* Mutant: the status looks at the linear component only
GamepadActiveLinear(lin, ang) == lin # 0

\* if (lin || ang)
GamepadActive(lin, ang) == lin # 0 \/ ang # 0

\* Mutant: a tick that never reschedules itself
RescheduleNever(cb) == Tail(raf)

\* Mutant: a tick that reschedules itself whatever the tracked index
RescheduleAlways(cb) == Append(Tail(raf), cb)

Reschedule(cb) == IF gamepadIdxRef # None THEN Append(Tail(raf), cb) ELSE Tail(raf)

\* One run of the pollGamepad callback at the head of the frame queue
PollGamepad ==
    /\ raf # <<>>
    /\ LET cb == Head(raf) IN
       /\ IF GamepadPresent
            THEN \E x \in GpAxes, y \in GpAxes :
                   LET lin == GamepadLin(y, cb.linearMul)
                       ang == GamepadAng(x, cb.angularMul)
                   IN  /\ ev' = [kind |-> "poll", gp |-> TRUE, x |-> x, y |-> y, cb |-> cb,
                                  before |-> [kind |-> ev.kind, out |-> out]]
                       /\ out' = publishTwist(lin, ang, cmdVelRef, now)
                       /\ IF GamepadActive(lin, ang)
                            THEN sig' = Some("Active") /\ twistStatus' = "Active"
                            ELSE sig' = Some("Idle") /\ twistStatus' = "Idle"
            ELSE /\ ev' = [kind |-> "poll", gp |-> FALSE, cb |-> cb,
                            before |-> [kind |-> ev.kind, out |-> out]]
                 /\ out' = <<>>
                 /\ sig' = None
                 /\ UNCHANGED twistStatus
       /\ raf' = Reschedule(cb)
    /\ frameLeft' = IF frameLeft = 0 THEN Len(raf) - 1 ELSE frameLeft - 1
    /\ UNCHANGED <<now, lastMoveTime, linearMul, angularMul, webStatus, conn,
                   cmdVelRef, gamepadIdxRef, pads>>
    /\ Track

-----------------------------------------------------------------------------
(* Clock *)

Advance(d) ==
    /\ frameLeft = 0
    /\ now + d <= StartTime + Horizon
    /\ now' = now + d
    /\ ev' = [kind |-> "advance"]
    /\ out' = <<>>
    /\ sig' = None
    /\ UNCHANGED <<lastMoveTime, linearMul, angularMul, webStatus, twistStatus, conn,
                   cmdVelRef, gamepadIdxRef, pads, raf, frameLeft>>
    /\ Track

-----------------------------------------------------------------------------
(* The mounted application: first render and first run of the effect done *)

Init ==
    /\ now = StartTime
    /\ lastMoveTime = 0
    /\ linearMul = InitLinearMul
    /\ angularMul = InitAngularMul
    /\ webStatus = "Connecting"
    /\ twistStatus = "Pending"
    /\ conn = <<"connecting">>
    /\ cmdVelRef = Some(1)
    /\ gamepadIdxRef = None
    /\ pads = [i \in PadIndices |-> "absent"]
    /\ raf = <<>>
    /\ frameLeft = 0
    /\ ev = [kind |-> "mount"]
    /\ out = <<>>
    /\ sig = None
    /\ lastStamp = None

TouchEvents ==
    \/ \E x \in TouchSamples, y \in TouchSamples : HandleMove(x, y)
    \/ HandleStop

LinkEvents ==
    \/ \E i \in DOMAIN conn : RosConnection(i)
    \/ \E i \in DOMAIN conn : RosError(i)
    \/ \E i \in DOMAIN conn : RosClose(i)

ConfigEvents ==
    \/ \E v \in LinearMuls : SetLinearMul(v)
    \/ \E v \in AngularMuls : SetAngularMul(v)

PadEvents ==
    \/ \E i \in PadIndices : HandleGamepadConnected(i)
    \/ \E i \in PadIndices : PadUnplug(i)
    \/ \E i \in PadIndices : HandleGamepadDisconnected(i)
    \/ PollGamepad

ClockEvents == \E d \in ClockSteps : Advance(d)

Next == TouchEvents \/ LinkEvents \/ ConfigEvents \/ PadEvents \/ ClockEvents

Spec == Init /\ [][Next]_vars

\* The application with no gamepad attached to the host
NextTouch == TouchEvents \/ LinkEvents \/ ConfigEvents \/ ClockEvents

SpecTouch == Init /\ [][NextTouch]_vars

\* The application within one clock reading, while the link delivers no event
NextPad == TouchEvents \/ ConfigEvents \/ PadEvents

SpecPad == Init /\ [][NextPad]_vars

\* The same, with a host that keeps delivering animation frames
SpecPadFair == SpecPad /\ WF_vars(PollGamepad)

\* The application within one clock reading, the multipliers left as they are
NextLink == TouchEvents \/ LinkEvents \/ PadEvents

SpecLink == Init /\ [][NextLink]_vars

\* The application within one clock reading, the touch joystick left alone
NextSetup == LinkEvents \/ ConfigEvents \/ PadEvents

SpecSetup == Init /\ [][NextSetup]_vars

\* applyEasing on its own: two raw samples of the touch range, then their eased values
RawAxis == (-AXIS_FULL)..AXIS_FULL

InitEase ==
    /\ now = StartTime
    /\ lastMoveTime = 0
    /\ linearMul = InitLinearMul
    /\ angularMul = InitAngularMul
    /\ webStatus = "Connecting"
    /\ twistStatus = "Pending"
    /\ conn = <<"connecting">>
    /\ cmdVelRef = Some(1)
    /\ gamepadIdxRef = None
    /\ pads = [i \in PadIndices |-> "absent"]
    /\ raf = <<>>
    /\ frameLeft = 0
    /\ \E a \in RawAxis, b \in RawAxis : ev = [kind |-> "sample", a |-> a, b |-> b]
    /\ out = <<>>
    /\ sig = None
    /\ lastStamp = None

Ease ==
    /\ ev.kind = "sample"
    /\ ev' = [kind |-> "eased", a |-> ev.a, b |-> ev.b,
              ea |-> applyEasing(ev.a), eb |-> applyEasing(ev.b),
              na |-> applyEasing(-ev.a)]
    /\ UNCHANGED <<now, lastMoveTime, linearMul, angularMul, webStatus, twistStatus,
                   conn, cmdVelRef, gamepadIdxRef, pads, raf, frameLeft, out, sig,
                   lastStamp>>

SpecEase == InitEase /\ [][Ease]_vars

-----------------------------------------------------------------------------
(* Properties *)

\* The (linear.x, angular.z) pair a message carries
Twist(m) == <<m.twist.linear.x, m.twist.angular.z>>

IsMove == ev.kind = "move"
BothAxes == ev.x # None /\ ev.y # None

\* C1: a touch move with both axes present that arrives fewer than 30 ms after the
\* last accepted move publishes nothing, signals no status and leaves the throttle
\* timer alone, whatever its coordinates; one that arrives 30 ms or more after it
\* is accepted: the throttle timer is set to its arrival time.
C1_TouchThrottle ==
    (IsMove /\ BothAxes) =>
        IF now - ev.last < 30
          THEN out = <<>> /\ sig = None /\ lastMoveTime = ev.last
          ELSE lastMoveTime = now

\* A full-deflection move rejected 10 ms after an accepted one
C1_Witness ==
    /\ IsMove /\ BothAxes
    /\ ev.y = Some(-100)
    /\ ev.last > 0
    /\ now - ev.last = 10
    /\ out = <<>>

\* C2: every release publishes exactly one command, with linear = 0 and
\* angular = 0, and sets the command-activity status to Idle, whatever the time
\* since the last accepted move.
C2_ReleaseStops ==
    ev.kind = "stop" =>
        /\ Len(out) = 1
        /\ Twist(out[1]) = <<0, 0>>
        /\ sig = Some("Idle")
        /\ twistStatus = "Idle"

\* A release 10 ms after an accepted move, inside the throttle window
C2_Witness ==
    /\ ev.kind = "stop"
    /\ lastMoveTime > 0
    /\ now - lastMoveTime = 10
    /\ Len(out) = 1
    /\ Twist(out[1]) = <<0, 0>>

\* C4: a command published while the transport is not connected is handed to
\* nothing: no handler passes a message to the topic's publish primitive unless
\* the connection of the command topic is connected.
C4_DisconnectedPublishIsNoOp == (~TransportConnected) => out = <<>>

\* C9: a connect event sets the link status to Connected and the
\* command-activity status to Idle; an error event sets both to Error; a close
\* event sets both to Disconnected.
C9_LinkTransitions ==
    /\ ev.kind = "connection" =>
          webStatus = "Connected" /\ twistStatus = "Idle" /\ sig = Some("Idle")
    /\ ev.kind = "error" =>
          webStatus = "Error" /\ twistStatus = "Error" /\ sig = Some("Error")
    /\ ev.kind = "close" =>
          webStatus = "Disconnected" /\ twistStatus = "Disconnected"
          /\ sig = Some("Disconnected")

\* An error event of a superseded connection, both statuses reading Error
C9_Witness ==
    /\ ev.kind = "error"
    /\ ev.i < Len(conn)
    /\ webStatus = "Error"
    /\ twistStatus = "Error"

IsPoll == ev.kind = "poll"

\* The command published last, by the tick that just ran or by the step before it
LatestTwist ==
    LET sent == ev.before.out \o out IN Twist(sent[Len(sent)])

Deflected == Abs(ev.x) > deadzone \/ Abs(ev.y) > deadzone

\* C3 as stated: after a release, the most recently published command is (0,0)
\* and still is after the gamepad poll tick that runs next, whatever the axes.
C3_ReleaseSurvivesPoll ==
    (IsPoll /\ ev.before.kind = "stop") => LatestTwist = <<0, 0>>

\* C3, amended: after a release the most recently published command is (0,0);
\* after the poll tick that runs next it is still (0,0) when the tracked device
\* is absent or both of its axes are within the deadzone, and otherwise it is the
\* one command that tick published from the axes (the last write wins).
C3_ReleaseThenPoll ==
    (IsPoll /\ ev.before.kind = "stop") =>
        /\ Len(ev.before.out) = 1
        /\ Twist(ev.before.out[1]) = <<0, 0>>
        /\ IF ev.gp /\ Deflected
             THEN /\ Len(out) = 1
                  /\ LatestTwist = <<GamepadLin(ev.y, ev.cb.linearMul),
                                     GamepadAng(ev.x, ev.cb.angularMul)>>
             ELSE LatestTwist = <<0, 0>>

\* A tick right after a release that overwrites the stop with a forward command
C3_Witness ==
    /\ IsPoll /\ ev.before.kind = "stop"
    /\ ev.gp /\ ev.y = -50
    /\ LatestTwist[1] > 0

\* C5: at most one pollGamepad callback is pending at any time.
C5_SinglePollLoop == Len(raf) <= 1

\* C6: a disconnect event clears the tracked index; while the index is cleared
\* (from a disconnect to the next connect) a poll tick publishes nothing, signals
\* no status and leaves the frame queue without rescheduling itself.
C6_DisconnectCancels ==
    [][ /\ (ev'.kind = "gamepaddisconnected" => gamepadIdxRef' = None)
        /\ (gamepadIdxRef = None /\ ev'.kind = "poll") =>
              /\ out' = <<>>
              /\ sig' = None
              /\ twistStatus' = twistStatus
              /\ raf' = Tail(raf) ]_vars

\* The tick that follows a disconnect has run and the loop is gone
C6_Witness ==
    /\ IsPoll /\ ev.before.kind = "gamepaddisconnected"
    /\ gamepadIdxRef = None
    /\ out = <<>>
    /\ raf = <<>>

\* C7: a touch move and a gamepad poll tick compute their command with the
\* multipliers as last written.
C7_FreshMultipliers ==
    /\ (IsPoll /\ ev.gp) =>
          /\ out # <<>>
          /\ Twist(out[1]) = <<GamepadLin(ev.y, linearMul), GamepadAng(ev.x, angularMul)>>
    /\ (IsMove /\ out # <<>>) =>
          Twist(out[1]) = <<TouchLin(ev.y[1], linearMul), TouchAng(ev.x[1], angularMul)>>

\* C8: every publishTwist call forwards exactly one message with exactly the two
\* values it was called with, never none and never several; when a touch move and
\* then a gamepad tick publish, both messages are sent and the last is the gamepad's.
C8_OneMessagePerCall ==
    /\ Len(out) <= 1
    /\ ev.kind = "stop" => (Len(out) = 1 /\ Twist(out[1]) = <<0, 0>>)
    /\ (IsMove /\ sig = Some("Active")) =>
          /\ Len(out) = 1
          /\ Twist(out[1]) = <<TouchLin(ev.y[1], linearMul), TouchAng(ev.x[1], angularMul)>>
    /\ (IsPoll /\ ev.gp) =>
          /\ Len(out) = 1
          /\ Twist(out[1]) = <<GamepadLin(ev.y, ev.cb.linearMul),
                               GamepadAng(ev.x, ev.cb.angularMul)>>
          /\ Len(ev.before.out \o out) = Len(ev.before.out) + 1
          /\ LatestTwist = Twist(out[1])

\* A touch command and right after it a different gamepad command
C8_Witness ==
    /\ IsPoll /\ ev.gp
    /\ ev.before.kind = "move"
    /\ Len(ev.before.out) = 1
    /\ Twist(ev.before.out[1]) # Twist(out[1])
    /\ LatestTwist = Twist(out[1])

\* C10: a poll tick with the tracked device present publishes exactly one
\* command, with linear = -y * linearMul beyond the deadzone and 0 within it, and
\* angular = -x * angularMul beyond the deadzone and 0 within it.
C10_TickOutput ==
    (IsPoll /\ ev.gp) =>
        /\ Len(out) = 1
        /\ out[1].twist.linear.x
              = (IF Abs(ev.y) > 10 THEN -ev.y * linearMul * 100 ELSE 0)
        /\ out[1].twist.angular.z
              = (IF Abs(ev.x) > 10 THEN -ev.x * angularMul * 100 ELSE 0)

\* A move that passed the null check and the throttle
Accepted == IsMove /\ BothAxes /\ now - ev.last >= 30

\* sign(raw) * (raw / 100)^2 * mul, in 1/100000
Scaled(raw, mul) == (IF raw < 0 THEN -(raw * raw) ELSE raw * raw) * mul

\* C11: a move that passes the null check and the throttle publishes exactly
\* (ease(y) * linearMul, -ease(x) * angularMul) and signals Active if either
\* component exceeds 0.01 in absolute value; otherwise it publishes nothing and
\* signals no status.
C11_TouchEmission ==
    Accepted =>
        LET lin == Scaled(ev.y[1], linearMul)
            ang == -Scaled(ev.x[1], angularMul)
        IN  IF Abs(lin) > 1000 \/ Abs(ang) > 1000
              THEN /\ Len(out) = 1
                   /\ Twist(out[1]) = <<lin, ang>>
                   /\ sig = Some("Active")
                   /\ twistStatus = "Active"
              ELSE /\ out = <<>>
                   /\ sig = None

\* A move pushed right only: angular -0.25 is published although linear is 0.00125
C11_Witness ==
    /\ Accepted
    /\ ev.x = Some(50) /\ ev.y = Some(5)
    /\ linearMul = 5 /\ angularMul = 10
    /\ Len(out) = 1
    /\ Twist(out[1]) = <<125, -25000>>

\* C12: a poll tick with the tracked device present sets the command-activity
\* status to Active if the linear or the angular component it published is
\* non-zero, and to Idle if both are zero.
C12_GamepadStatus ==
    (IsPoll /\ ev.gp) =>
        /\ Len(out) = 1
        /\ IF Twist(out[1]) = <<0, 0>>
             THEN sig = Some("Idle") /\ twistStatus = "Idle"
             ELSE sig = Some("Active") /\ twistStatus = "Active"

\* A deflected linear axis under a zero multiplier, the other axis at rest: Idle
C12_Witness ==
    /\ IsPoll /\ ev.gp
    /\ ev.y = -50 /\ ev.x = 10
    /\ ev.cb.linearMul = 0
    /\ Twist(out[1]) = <<0, 0>>
    /\ twistStatus = "Idle"

InputKinds == {"move", "stop", "poll"}

\* C13: a touch move, a touch release and a gamepad poll tick never change the
\* link status, whatever it reads.
C13_InputsLeaveLinkStatus ==
    [][ev'.kind \in InputKinds => webStatus' = webStatus]_vars

\* A tick that signalled Active while the link status reads Error
C13_Witness ==
    /\ IsPoll /\ ev.gp
    /\ sig = Some("Active")
    /\ webStatus = "Error"

\* C14: for every integer raw in [-100, 100], ease(raw) = sign(raw) * (raw/100)^2
\* (raw * raw in 1/10000, negated for raw < 0); ease(0) = 0, ease(100) = 1,
\* ease(-100) = -1, ease(-raw) = -ease(raw), and raw1 <= raw2 implies
\* ease(raw1) <= ease(raw2).
C14_Easing ==
    ev.kind = "eased" =>
        /\ ev.ea = (IF ev.a < 0 THEN -(ev.a * ev.a) ELSE ev.a * ev.a)
        /\ (ev.a = 0 => ev.ea = 0)
        /\ (ev.a = 100 => ev.ea = 10000)
        /\ (ev.a = -100 => ev.ea = -10000)
        /\ ev.na = -ev.ea
        /\ (ev.a <= ev.b => ev.ea <= ev.eb)

\* The two ends of the range, eased to -1 and 1
C14_Witness ==
    /\ ev.kind = "eased"
    /\ ev.a = -100 /\ ev.b = 100
    /\ ev.ea = -10000 /\ ev.eb = 10000

\* (sec, nanosec) of a is not after that of b
StampLeq(a, b) == a.sec < b.sec \/ (a.sec = b.sec /\ a.nanosec <= b.nanosec)

\* C15: every published message carries sec = floor(now / 1000) and
\* nanosec = (now mod 1000) * 10^6 of the clock at its publish, so
\* 0 <= nanosec < 10^9, and its stamp is not before the stamp of the message
\* published before it.
C15_Stamps ==
    [][out' # <<>> =>
         LET st == out'[1].header.stamp IN
           /\ st.sec * 1000 <= now' /\ now' < (st.sec + 1) * 1000
           /\ st.nanosec = (now' - st.sec * 1000) * 1000000
           /\ 0 <= st.nanosec /\ st.nanosec < 1000000000
           /\ (lastStamp # None => StampLeq(lastStamp[1], st))]_vars

\* A publish in the second after the one of the publish before it
C15_Witness ==
    /\ out # <<>>
    /\ out[1].header.stamp = [sec |-> 1, nanosec |-> 0]
    /\ lastMoveTime = 990
    /\ ev.kind = "stop"

\* C16: a poll tick that finds a tracked index but no device publishes nothing,
\* signals no status and requests itself again for the next frame; a pending
\* callback leaves the frame queue only while no index is tracked; and, frames
\* being delivered, a pending callback always gets its tick.
C16_MissedTick ==
    /\ [][ /\ (gamepadIdxRef # None /\ ev'.kind = "poll" /\ ~ev'.gp) =>
                /\ out' = <<>>
                /\ sig' = None
                /\ twistStatus' = twistStatus
                /\ raf' = Append(Tail(raf), Head(raf))
           /\ (Len(raf') < Len(raf) => gamepadIdxRef = None) ]_vars
    /\ (raf # <<>> /\ ~IsPoll) ~> IsPoll

\* A missed tick has run: index tracked, device gone from the host, loop still queued
C16_Witness ==
    /\ IsPoll /\ ~ev.gp
    /\ gamepadIdxRef # None
    /\ pads[gamepadIdxRef[1]] = "unplugged"
    /\ out = <<>>
    /\ raf # <<>>

\* C17: a move sets lastMoveTime to its arrival time exactly when both of its axes
\* are present and it arrives at least 30 ms after the current lastMoveTime,
\* whether or not the magnitude gate then discards it; a move with a null axis,
\* a move inside the throttle window and a release leave lastMoveTime unchanged.
C17_TimerUpdates ==
    [][ /\ ev'.kind = "move" =>
              lastMoveTime' = IF ev'.x # None /\ ev'.y # None /\ now - lastMoveTime >= 30
                                THEN now
                                ELSE lastMoveTime
        /\ ev'.kind = "stop" => lastMoveTime' = lastMoveTime ]_vars

\* A near-neutral move was let through the throttle, discarded by the gate, and
\* restarted the timer
C17_Witness ==
    /\ IsMove
    /\ ev.x = Some(5) /\ ev.y = Some(5)
    /\ ev.last < now
    /\ lastMoveTime = now
    /\ out = <<>>

LinkDown == {"Error", "Disconnected"}

\* C18: while the command-activity status reads Error or Disconnected, a touch
\* move that emits, a touch release and a poll tick with the device present each
\* overwrite it with Active or Idle and leave the link status as it reads.
C18_StatusNotSticky ==
    [][(twistStatus \in LinkDown /\ ev'.kind \in InputKinds) =>
         /\ webStatus' = webStatus
         /\ ev'.kind = "stop" => twistStatus' = "Idle"
         /\ (ev'.kind = "move" /\ out' # <<>>) => twistStatus' = "Active"
         /\ (ev'.kind = "poll" /\ ev'.gp) => twistStatus' \in {"Active", "Idle"}
         /\ twistStatus' # twistStatus => sig' = Some(twistStatus')]_vars

\* Link status Disconnected, command-activity status Active
C18_Witness ==
    /\ webStatus = "Disconnected"
    /\ twistStatus = "Active"
    /\ ev.kind \in InputKinds

MulWrites == {"setLinearMul", "setAngularMul"}

\* C19: a multiplier write asks the current connection to close, creates a new
\* connection (connecting) and binds the command topic to it, and leaves the
\* tracked gamepad index and the pending poll callbacks as they are; a poll
\* callback is only ever added by a gamepad connect event, which queues the
\* callback of the latest render.
C19_WriteRerunsSetup ==
    [][ /\ ev'.kind \in MulWrites =>
              /\ Len(conn') = Len(conn) + 1
              /\ conn'[Len(conn')] = "connecting"
              /\ cmdVelRef' = Some(Len(conn'))
              /\ conn[Len(conn)] \in {"connecting", "open"} => conn'[Len(conn)] = "closing"
              /\ conn[Len(conn)] \notin {"connecting", "open"} =>
                    conn'[Len(conn)] = conn[Len(conn)]
              /\ \A i \in 1..(Len(conn) - 1) : conn'[i] = conn[i]
              /\ gamepadIdxRef' = gamepadIdxRef
              /\ raf' = raf
        /\ Len(raf') > Len(raf) => ev'.kind = "gamepadconnected"
        /\ ev'.kind = "gamepadconnected" =>
              raf'[Len(raf')] = [linearMul |-> linearMul', angularMul |-> angularMul']
      ]_vars

\* A write with a loop running: the open connection closing, a new one connecting,
\* the index and the loop of the earlier render still there
C19_Witness ==
    /\ ev.kind = "setLinearMul"
    /\ conn = <<"closing", "connecting">>
    /\ cmdVelRef = Some(2)
    /\ webStatus = "Connected"
    /\ gamepadIdxRef # None
    /\ Len(raf) = 1
    /\ raf[1].linearMul # linearMul

\* C20: every gamepad disconnect event leaves no tracked index, whichever device
\* it names; while there is no tracked index a poll callback publishes nothing,
\* signals nothing and queues no successor, although another device may still be
\* plugged in; the index is set again, and an emptied callback queue refilled,
\* by a gamepad connect event only.
C20_AnyDisconnectClears ==
    [][ /\ ev'.kind = "gamepaddisconnected" => gamepadIdxRef' = None
        /\ (ev'.kind = "poll" /\ gamepadIdxRef = None) =>
              /\ ~ev'.gp
              /\ out' = <<>>
              /\ sig' = None
              /\ Len(raf') = Len(raf) - 1
        /\ (gamepadIdxRef = None /\ gamepadIdxRef' # None) => ev'.kind = "gamepadconnected"
        /\ (raf = <<>> /\ raf' # <<>>) => ev'.kind = "gamepadconnected"
      ]_vars

\* Device 1 tracked and still plugged in, device 0 disconnects, the loop pending
C20_Witness ==
    /\ ev.kind = "gamepaddisconnected"
    /\ ev.i = 0
    /\ ev.tracked = Some(1)
    /\ pads[1] = "present"
    /\ gamepadIdxRef = None
    /\ raf # <<>>

====
